---- MODULE Spec2Model ----
(***************************************************************************)
(* infotube: the display state machine of src/app.rs (App::run, on_tick,   *)
(* handle_events).  One action per branch of the run loop's select!.       *)
(* Time is not a variable: sleep_ms holds the duration the pending timer   *)
(* was armed with, which is the gap between two consecutive Ticks.         *)
(*                                                                         *)
(* Three further specifications share the module: RenderSpec applies the   *)
(* ticker renderer of App::ui to bounded inputs, FunnelSpec is the event   *)
(* funnel of src/event.rs with explicit time, ChanSpec is the bounded      *)
(* message channel between main's connection tasks and the run loop.  Each *)
(* holds the variables of the others at rest.                              *)
(*                                                                         *)
(* A string is a sequence of glyphs; a glyph is a one-element string name. *)
(* An Option<T> is a sequence of length 0 (None) or 1 (Some).              *)
(***************************************************************************)
EXTENDS Integers, Sequences, FiniteSets, TLC

(***************************************************************************)
(* Bounds of the model.                                                    *)
(***************************************************************************)
\* scroll_offset is a usize that grows by one per tick while the static text
\* scrolls; that scrolling is followed up to MaxOffset.  (The overlay's own
\* scrolling needs no bound: it starts at 0 and ends with the countdown.)
MaxOffset == 2
\* the speed keys are explored up to MaxDrift steps away from the
\* configured interval.
MaxDrift == 1
\* the count of ticks since the last message saturates at TickCap.
TickCap == 6
\* the renderer is applied to inner areas 0..MaxAreaWidth columns wide and to
\* scroll offsets 0..MaxRenderOffset.
MaxAreaWidth == 10
MaxRenderOffset == 12
\* the funnel's clock is followed up to MaxTime time units; every producer
\* sends at most MaxSends events; at most MaxPendingRates rate changes wait
\* in the rate channel at once.
MaxTime == 4
MaxSends == 2
MaxPendingRates == 1
\* besides the connection that is followed, MaxOthers TCP connections send a
\* message: one more than the channel holds.
MaxOthers == 33
\* the WebSocket task's diagnostics are counted up to MaxDiagnostics.
MaxDiagnostics == 3

(***************************************************************************)
(* Program constants.                                                      *)
(***************************************************************************)
AlertDurationMs == 9000
SpeedStepMs == 10
MinSpeedMs == 10
MaxSpeedMs == 2000
FallbackCols == 80
FrameCols == 2
\* mpsc::channel(32)
ChannelCapacity == 32
\* time::sleep(Duration::from_secs(5))
RetryDelaySecs == 5

None == << >>
Some(x) == <<x>>

(***************************************************************************)
(* Inputs: configured tick intervals, static texts, message payloads,      *)
(* terminal sizes reported by crossterm::terminal::size(), key codes.      *)
(***************************************************************************)
ConfiguredSpeeds == {1995, 3000}

TextAB == <<"A", "B">>
StaticTexts == {TextAB}

MsgAlertX == <<"A", "L", "E", "R", "T", " ", "X">>
MsgWide == <<"WIDE", "ZW", "!">>
Messages == {MsgAlertX, MsgWide}

\* what crossterm::terminal::size() returns: Err (None) or Ok with the columns
TermSizes == {None, Some(2)}

\* texts the renderer is applied to: plain, with two-column and zero-width
\* glyphs, and empty
TextWideMix == <<"A", "WIDE", "ZW", "B", "WIDE">>
TextNews == <<"N", "E", "W", "S", " ", "A", "T", " ", "T", "E", "N", "!">>
RenderTexts == {TextAB, TextNews, TextWideMix, << >>}
\* countdown values the overlay is drawn with
RenderCountdowns == {9000, 1995}

\* tick rates handed to EventHandler::new and set_tick_rate, in time units
TickRates == {1, 3}
\* the tasks that hold a sender of the funnel and send more than once: the
\* clock task (Tick, Key and Resize events) and the WebSocket client task
Adapters == {"ws"}
Producers == {"clock"} \cup Adapters
\* Event values (src/event.rs:8-17)
EventTick == <<"Tick">>
EventKey == <<"Key", "q">>
EventResize == <<"Resize", 80>>
EventMessage == <<"Message", MsgAlertX>>
TerminalEvents == {EventKey, EventResize}

\* what socket.read gives a connection task: Err (None) or the bytes read,
\* decoded; "LF" is a line feed
ReadEmpty == << >>
ReadBlank == <<" ", "LF">>
ReadOk == <<" ", "O", "K", "LF">>
ConnReads == {None, Some(ReadEmpty), Some(ReadBlank), Some(ReadOk), Some(MsgAlertX)}
\* the glyphs str::trim removes
WhiteSpace == {" ", "LF"}

Keys == {"q", "Esc", "Enter", " ", "f", "b", "+", "k", "-", "j", "x"}

VARIABLES
    \* ---- App (src/app.rs:17-46) ----
    running,
    scroll_speed_ms,          \* config.scroll_speed_ms
    show_frame,               \* config.show_frame
    text,
    scroll_offset,
    last_known_width,
    interrupt_text,
    interrupt_remaining_ms,
    paused_before_interrupt,
    saved_scroll_offset,
    paused,
    dimmed,
    \* ---- App::run ----
    sleep_ms,                 \* the duration the pending `sleep` was armed with:
                              \* the time from the previous Tick (or the start)
                              \* to the next one
    \* ---- environment ----
    term_size,                \* what crossterm::terminal::size() returns; the
                              \* terminal is not resized during a run
    \* ---- history ----
    configured_ms,            \* scroll_speed_ms as loaded from the configuration
    only_ticks,               \* a Message was processed and only Ticks since
    before_msg_paused,        \* paused immediately before that Message
    before_msg_offset,        \* scroll_offset immediately before that Message
    ticks_since_msg,          \* Ticks fired since that Message (saturating)
    paused_tick_parity,       \* parity of the run of Ticks, up to now, that
                              \* found paused set (FALSE after any other event)
    \* ---- App::ui (src/app.rs:129-272) ----
    area_width,               \* inner_area.width of the frame being drawn
    displayed_string,         \* the line handed to the Paragraph
    alignment,                \* its alignment; "NotDrawn" before the first draw
    \* ---- EventHandler (src/event.rs:19-103) ----
    now,                      \* tokio::time::Instant::now()
    interval_deadline,        \* when `interval` completes its next tick()
    interval_period,          \* the period of `interval`
    last_tick,                \* the instant the most recent Tick was sent
    tick_speed_rx,            \* rate changes sent by set_tick_rate, not yet read
    rx,                       \* events sent into the funnel, not yet read by
                              \* next(); each carries its producer and the
                              \* producer's running number
    sent_count,               \* per producer: events sent so far
    recv_count,               \* per producer: events returned by next() so far
    rate_changed,             \* a rate change was applied since the last Tick
    \* ---- the message channel of main (src/main.rs:28-51) ----
    channel,                  \* the messages buffered in the mpsc channel, each
                              \* named by the connection task that sent it
    send_waiters,             \* connection tasks suspended in tx.send(msg).await,
                              \* in arrival order
    conn_pc,                  \* the connection task that is followed: "reading",
                              \* "sending" (suspended in send), "sent" (send
                              \* returned Ok), "failed" (send returned Err)
    others_left,              \* other connection tasks that have not sent yet
    conn_read,                \* what socket.read gave the followed task
    delivered,                \* the run loop has received the followed message
    \* ---- the TCP listener task of main (src/main.rs:32-57) ----
    listener,                 \* "binding", "accepting" or "ended"
    bind_diagnostics,         \* "Failed to bind" lines written so far
    \* ---- the iterations of App::run (src/app.rs:98-124) ----
    loop_pc,                  \* "draw": at terminal.draw; "select": at select!
    events_handled,           \* events handled by the select! last left
    \* ---- the WebSocket client task (src/ws_client.rs:21-63) ----
    ws_pc,                    \* "connecting": about to call connect_and_listen;
                              \* "listening": in its read loop; "sleeping": in
                              \* the retry delay
    ws_url_ok,                \* Url::parse(&config.url) succeeds
    ws_diagnostics,           \* "WebSocket Error" lines written so far
    ws_sleep_left             \* seconds left of the retry delay

appVars == <<running, scroll_speed_ms, show_frame, text, scroll_offset,
             last_known_width, interrupt_text, interrupt_remaining_ms,
             paused_before_interrupt, saved_scroll_offset, paused, dimmed>>
histVars == <<configured_ms, only_ticks, before_msg_paused,
              before_msg_offset, ticks_since_msg, paused_tick_parity>>
drawVars == <<area_width, displayed_string, alignment>>
\* what the specification of the run loop leaves alone
funnelVars == <<now, interval_deadline, interval_period, last_tick,
                tick_speed_rx, rx, sent_count, recv_count, rate_changed>>
chanVars == <<channel, send_waiters, conn_pc, others_left, conn_read, delivered>>
listenerVars == <<listener, bind_diagnostics>>
loopVars == <<loop_pc, events_handled>>
wsVars == <<ws_pc, ws_url_ok, ws_diagnostics, ws_sleep_left>>
otherVars == <<drawVars, funnelVars, chanVars, loopVars, wsVars>>
\* what the specification of the funnel leaves alone
nonFunnelVars == <<appVars, sleep_ms, term_size, histVars, drawVars, chanVars,
                   listenerVars, loopVars, wsVars>>
vars == <<appVars, sleep_ms, term_size, histVars, otherVars, listenerVars>>

(***************************************************************************)
(* Pure helpers.                                                           *)
(***************************************************************************)
\* UnicodeWidthChar::width(c).unwrap_or(0): "WIDE" is a two-column glyph,
\* "ZW" a zero-width combining mark, every other glyph one column.
CharWidth(c) == IF c = "WIDE" THEN 2 ELSE IF c = "ZW" THEN 0 ELSE 1

\* UnicodeWidthStr::width(s)
RECURSIVE StrWidth(_)
StrWidth(s) == IF s = << >> THEN 0 ELSE CharWidth(Head(s)) + StrWidth(Tail(s))

\* (ms as f64 / 1000.0).ceil() as usize
Seconds(ms) == (ms + 999) \div 1000

DigitChars == <<"0", "1", "2", "3", "4", "5", "6", "7", "8", "9">>

\* the decimal digits of n, as format!("{}", n) writes them
RECURSIVE Decimal(_)
Decimal(n) == IF n < 10 THEN <<DigitChars[n + 1]>>
              ELSE Decimal(n \div 10) \o <<DigitChars[(n % 10) + 1]>>

\* format!("({}s)  ", seconds)
CountdownPrefix(ms) == <<"(">> \o Decimal(Seconds(ms)) \o <<"s", ")", " ", " ">>

\* the width on_tick works with
TickWidth(sz, frame) ==
    IF sz = None THEN FallbackCols
    ELSE IF frame THEN (IF sz[1] > FrameCols THEN sz[1] - FrameCols ELSE 0)
    ELSE sz[1]

HasOverlay == interrupt_text # None

(***************************************************************************)
(* The ticker line of App::ui (src/app.rs:199-260; render_ticker of        *)
(* src/ui.rs:94-153 is the same code).                                     *)
(***************************************************************************)
\* (mutation) no spacer between the end of the text and its repetition
Spacer_None == << >>

\* let spacer = "   ***   "
Spacer == <<" ", " ", " ", "*", "*", "*", " ", " ", " ">>

\* a.saturating_sub(b)
SatSub(a, b) == IF a > b THEN a - b ELSE 0

\* the i-th glyph (from 0) of content.chars().cycle()
CycleAt(content, i) == content[(i % Len(content)) + 1]

\* the first loop: the position in the cycle of the first glyph that is
\* pushed, i.e. the first glyph that ends beyond `offset` columns
RECURSIVE SkipIndex(_, _, _, _)
SkipIndex(content, i, skipped_width, offset) ==
    LET w == CharWidth(CycleAt(content, i))
    IN  IF skipped_width + w > offset THEN i
        ELSE SkipIndex(content, i + 1, skipped_width + w, offset)

\* the second loop: glyphs are pushed until current_width reaches the
\* available width
RECURSIVE FillWindow(_, _, _, _, _)
FillWindow(content, i, current_width, available, pushed) ==
    IF current_width >= available THEN pushed
    ELSE LET c == CycleAt(content, i)
         IN  FillWindow(content, i + 1, current_width + CharWidth(c),
                        available, Append(pushed, c))

\* (mutation) the offset wraps at the width of the text without the spacer
ScrollPeriod_NoSpacer(content_text) == StrWidth(content_text)

\* content.width(), content being the text followed by the spacer
ScrollPeriod(content_text) == StrWidth(content_text \o Spacer)

\* the scrolling branch: lines 227-260
ScrollWindow(content_text, offset_raw, available) ==
    LET content == content_text \o Spacer
        offset == offset_raw % ScrollPeriod(content_text)
        first == SkipIndex(content, 0, 0, offset)
        c == CycleAt(content, first)
    IN  FillWindow(content, first + 1, CharWidth(c), available, <<c>>)

\* (mutation) a text exactly as wide as the available width is scrolled
TickerBody_StrictFit(content_text, offset_raw, available) ==
    IF StrWidth(content_text) < available
    THEN content_text
    ELSE ScrollWindow(content_text, offset_raw, available)

\* what is appended to the prefix: lines 224-260
TickerBody(content_text, offset_raw, available) ==
    IF StrWidth(content_text) <= available
    THEN content_text
    ELSE ScrollWindow(content_text, offset_raw, available)

\* lines 216-222
TickerAlignment(is_alert, content_text_width, width, frame) ==
    IF is_alert THEN "Left"
    ELSE IF content_text_width <= width /\ frame THEN "Center"
    ELSE "Left"

\* lines 201-206
TickerPrefix == IF HasOverlay THEN CountdownPrefix(interrupt_remaining_ms) ELSE << >>
ContentText == IF HasOverlay THEN interrupt_text[1] ELSE text
\* (mutation) the prefix is not taken off the width given to the body
ContentAvailableWidth_WholeArea == area_width

\* line 210
ContentAvailableWidth == SatSub(area_width, StrWidth(TickerPrefix))

\* the funnel is not in use
NoFunnel ==
    /\ now = 0
    /\ interval_deadline = 0
    /\ interval_period = 0
    /\ last_tick = 0
    /\ tick_speed_rx = << >>
    /\ rx = << >>
    /\ sent_count = [p \in Producers |-> 0]
    /\ recv_count = [p \in Producers |-> 0]
    /\ rate_changed = FALSE

\* the listener task is in its accept loop
ListenerUp ==
    /\ listener = "accepting"
    /\ bind_diagnostics = 0

\* no WebSocket source is configured
NoWs ==
    /\ ws_pc = "connecting"
    /\ ws_url_ok = TRUE
    /\ ws_diagnostics = 0
    /\ ws_sleep_left = 0

\* no connection sends into the message channel
NoChannel ==
    /\ channel = << >>
    /\ send_waiters = << >>
    /\ conn_pc = "reading"
    /\ others_left = 0
    /\ conn_read = None
    /\ delivered = FALSE

\* no frame has been drawn
NotDrawn ==
    /\ area_width = 0
    /\ displayed_string = << >>
    /\ alignment = "NotDrawn"

(***************************************************************************)
(* App::new and the arming of the timer before the loop.                   *)
(***************************************************************************)
Init ==
    /\ running = TRUE
    /\ configured_ms \in ConfiguredSpeeds
    /\ scroll_speed_ms = configured_ms
    /\ show_frame \in BOOLEAN
    /\ text \in StaticTexts
    /\ scroll_offset = 0
    /\ last_known_width = 0
    /\ interrupt_text = None
    /\ interrupt_remaining_ms = 0
    /\ paused_before_interrupt = FALSE
    /\ saved_scroll_offset = 0
    /\ paused = FALSE
    /\ dimmed = FALSE
    /\ sleep_ms = scroll_speed_ms
    /\ term_size \in TermSizes
    /\ only_ticks = FALSE
    /\ before_msg_paused = FALSE
    /\ before_msg_offset = 0
    /\ ticks_since_msg = 0
    /\ paused_tick_parity = FALSE
    /\ NotDrawn
    /\ NoFunnel
    /\ NoChannel
    /\ listener = "binding"
    /\ bind_diagnostics = 0
    /\ loop_pc = "draw"
    /\ events_handled = 0
    /\ NoWs

(***************************************************************************)
(* App::on_tick (src/app.rs:275-321).                                      *)
(***************************************************************************)
\* the overlay's countdown has run out: lines 294-298
ExpireInterrupt ==
    /\ interrupt_text' = None
    /\ paused' = paused_before_interrupt
    /\ scroll_offset' = saved_scroll_offset
    /\ UNCHANGED interrupt_remaining_ms

\* the overlay is still running: lines 291-292 and 301-308
CountDownInterrupt(width) ==
    LET remaining == interrupt_remaining_ms - scroll_speed_ms
        display_text == CountdownPrefix(remaining) \o interrupt_text[1]
    IN  /\ interrupt_remaining_ms' = remaining
        /\ scroll_offset' = IF StrWidth(display_text) > width
                            THEN scroll_offset + 1
                            ELSE scroll_offset
        /\ UNCHANGED <<interrupt_text, paused>>

\* (mutation) the expiry test written with >= instead of >
OnTickInterrupt_OffByOne(width) ==
    IF interrupt_remaining_ms >= scroll_speed_ms
    THEN CountDownInterrupt(width)
    ELSE ExpireInterrupt

\* (mutation) the countdown is decremented first (saturating) and the overlay
\* is cleared only by the tick that finds it at zero
OnTickInterrupt_ExpireAtZero(width) ==
    IF interrupt_remaining_ms > 0
    THEN LET remaining == IF interrupt_remaining_ms > scroll_speed_ms
                          THEN interrupt_remaining_ms - scroll_speed_ms ELSE 0
             display_text == CountdownPrefix(remaining) \o interrupt_text[1]
         IN  /\ interrupt_remaining_ms' = remaining
             /\ scroll_offset' = IF StrWidth(display_text) > width
                                 THEN scroll_offset + 1
                                 ELSE scroll_offset
             /\ UNCHANGED <<interrupt_text, paused>>
    ELSE ExpireInterrupt

\* lines 289-309
OnTickInterrupt(width) ==
    IF interrupt_remaining_ms > scroll_speed_ms
    THEN CountDownInterrupt(width)
    ELSE ExpireInterrupt

\* (mutation) the offset is left alone when the text fits
OnTickScroll_KeepOffset(width) ==
    /\ scroll_offset' = IF StrWidth(text) > width THEN scroll_offset + 1 ELSE scroll_offset
    /\ UNCHANGED <<interrupt_text, interrupt_remaining_ms, paused>>

\* lines 311-320
OnTickScroll(width) ==
    /\ scroll_offset' = IF StrWidth(text) > width THEN scroll_offset + 1 ELSE 0
    /\ UNCHANGED <<interrupt_text, interrupt_remaining_ms, paused>>

OnTick(sz) ==
    LET width == TickWidth(sz, show_frame)
    IN  /\ last_known_width' = width
        /\ IF HasOverlay THEN OnTickInterrupt(width) ELSE OnTickScroll(width)
        /\ UNCHANGED <<running, scroll_speed_ms, show_frame, text,
                       paused_before_interrupt, saved_scroll_offset, dimmed>>

(***************************************************************************)
(* App::run, the three branches of select! (src/app.rs:103-123).           *)
(***************************************************************************)
\* (mutation) on_tick is called without looking at paused
TimerBranch_NoPauseCheck(sz) ==
    /\ OnTick(sz)
    /\ sleep_ms' = scroll_speed_ms

\* () = &mut sleep => { ... }: lines 105-111
TimerBranch(sz) ==
    /\ IF ~paused THEN OnTick(sz) ELSE UNCHANGED appVars
    /\ sleep_ms' = scroll_speed_ms

\* (mutation) the offset is saved after it has been reset
MessageBranch_SaveAfterReset(msg) ==
    /\ paused_before_interrupt' = paused
    /\ paused' = FALSE
    /\ interrupt_text' = Some(msg)
    /\ interrupt_remaining_ms' = AlertDurationMs
    /\ scroll_offset' = 0
    /\ saved_scroll_offset' = scroll_offset'
    /\ UNCHANGED <<running, scroll_speed_ms, show_frame, text,
                   last_known_width, dimmed, sleep_ms>>

\* (mutation) the interrupt does not force playback
MessageBranch_KeepPaused(msg) ==
    /\ paused_before_interrupt' = paused
    /\ saved_scroll_offset' = scroll_offset
    /\ paused' = paused
    /\ interrupt_text' = Some(msg)
    /\ interrupt_remaining_ms' = AlertDurationMs
    /\ scroll_offset' = 0
    /\ UNCHANGED <<running, scroll_speed_ms, show_frame, text,
                   last_known_width, dimmed, sleep_ms>>

\* Some(msg) = rx.recv() => { ... }: lines 113-120
MessageBranch(msg) ==
    /\ paused_before_interrupt' = paused
    /\ saved_scroll_offset' = scroll_offset
    /\ paused' = FALSE
    /\ interrupt_text' = Some(msg)
    /\ interrupt_remaining_ms' = AlertDurationMs
    /\ scroll_offset' = 0
    /\ UNCHANGED <<running, scroll_speed_ms, show_frame, text,
                   last_known_width, dimmed, sleep_ms>>

(***************************************************************************)
(* App::handle_events (src/app.rs:324-356) on a key press.                 *)
(***************************************************************************)
\* (mutation) Enter clears the overlay and resumes playback instead of
\* restoring the remembered pause flag
DismissInterrupt_AlwaysResume ==
    IF HasOverlay
    THEN /\ interrupt_text' = None
         /\ paused' = FALSE
         /\ scroll_offset' = saved_scroll_offset
    ELSE UNCHANGED <<interrupt_text, paused, scroll_offset>>

\* KeyCode::Enter: lines 330-337
DismissInterrupt ==
    IF HasOverlay
    THEN /\ interrupt_text' = None
         /\ paused' = paused_before_interrupt
         /\ scroll_offset' = saved_scroll_offset
    ELSE UNCHANGED <<interrupt_text, paused, scroll_offset>>

\* '+' | 'k': lines 341-345
SpeedUp(ms) == IF ms > MinSpeedMs THEN ms - SpeedStepMs ELSE ms

\* '-' | 'j': lines 346-350
SlowDown(ms) == IF ms < MaxSpeedMs THEN ms + SpeedStepMs ELSE ms

\* (mutation) toggling the frame also rewinds the scroll position
HandleKey_FrameRewinds(code) ==
    /\ running' = IF code \in {"q", "Esc"} THEN FALSE ELSE running
    /\ IF code = "Enter"
       THEN DismissInterrupt
       ELSE /\ paused' = IF code = " " THEN ~paused ELSE paused
            /\ scroll_offset' = IF code = "f" THEN 0 ELSE scroll_offset
            /\ UNCHANGED interrupt_text
    /\ show_frame' = IF code = "f" THEN ~show_frame ELSE show_frame
    /\ dimmed' = IF code = "b" THEN ~dimmed ELSE dimmed
    /\ scroll_speed_ms' = IF code \in {"+", "k"} THEN SpeedUp(scroll_speed_ms)
                          ELSE IF code \in {"-", "j"} THEN SlowDown(scroll_speed_ms)
                          ELSE scroll_speed_ms
    /\ UNCHANGED <<text, last_known_width, interrupt_remaining_ms,
                   paused_before_interrupt, saved_scroll_offset, sleep_ms>>

\* lines 328-352
HandleKey(code) ==
    /\ running' = IF code \in {"q", "Esc"} THEN FALSE ELSE running
    /\ IF code = "Enter"
       THEN DismissInterrupt
       ELSE /\ paused' = IF code = " " THEN ~paused ELSE paused
            /\ UNCHANGED <<interrupt_text, scroll_offset>>
    /\ show_frame' = IF code = "f" THEN ~show_frame ELSE show_frame
    /\ dimmed' = IF code = "b" THEN ~dimmed ELSE dimmed
    /\ scroll_speed_ms' = IF code \in {"+", "k"} THEN SpeedUp(scroll_speed_ms)
                          ELSE IF code \in {"-", "j"} THEN SlowDown(scroll_speed_ms)
                          ELSE scroll_speed_ms
    /\ UNCHANGED <<text, last_known_width, interrupt_remaining_ms,
                   paused_before_interrupt, saved_scroll_offset, sleep_ms>>

(***************************************************************************)
(* The events of the run loop.                                             *)
(***************************************************************************)
Min(a, b) == IF a < b THEN a ELSE b
Abs(a) == IF a < 0 THEN 0 - a ELSE a

\* (mutation) the timer branch goes on after the loop condition is false
Tick_AfterQuit ==
    /\ TimerBranch(term_size)
    /\ HasOverlay \/ scroll_offset' <= scroll_offset \/ scroll_offset' <= MaxOffset
    /\ ticks_since_msg' = IF only_ticks THEN Min(ticks_since_msg + 1, TickCap) ELSE 0
    /\ paused_tick_parity' = IF paused THEN ~paused_tick_parity ELSE FALSE
    /\ UNCHANGED <<term_size, configured_ms, only_ticks, before_msg_paused,
                   before_msg_offset, otherVars, listenerVars>>

Tick ==
    /\ running
    /\ TimerBranch(term_size)
    /\ HasOverlay \/ scroll_offset' <= scroll_offset \/ scroll_offset' <= MaxOffset
    /\ ticks_since_msg' = IF only_ticks THEN Min(ticks_since_msg + 1, TickCap) ELSE 0
    /\ paused_tick_parity' = IF paused THEN ~paused_tick_parity ELSE FALSE
    /\ UNCHANGED <<term_size, configured_ms, only_ticks, before_msg_paused,
                   before_msg_offset, otherVars, listenerVars>>

RecvMessage(msg) ==
    /\ running
    /\ listener = "accepting"
    /\ MessageBranch(msg)
    /\ only_ticks' = TRUE
    /\ before_msg_paused' = paused
    /\ before_msg_offset' = scroll_offset
    /\ ticks_since_msg' = 0
    /\ paused_tick_parity' = FALSE
    /\ UNCHANGED <<term_size, configured_ms, otherVars, listenerVars>>

KeyPress(code) ==
    /\ running
    /\ HandleKey(code)
    /\ Abs(scroll_speed_ms' - configured_ms) <= MaxDrift * SpeedStepMs
    /\ only_ticks' = FALSE
    /\ before_msg_paused' = FALSE
    /\ before_msg_offset' = 0
    /\ ticks_since_msg' = 0
    /\ paused_tick_parity' = FALSE
    /\ UNCHANGED <<term_size, configured_ms, otherVars, listenerVars>>

\* (mutation) a bind failure ends the run loop as well
BindListener_FailureQuits(ok) ==
    /\ running
    /\ listener = "binding"
    /\ listener' = IF ok THEN "accepting" ELSE "ended"
    /\ bind_diagnostics' = IF ok THEN bind_diagnostics ELSE bind_diagnostics + 1
    /\ running' = ok
    /\ UNCHANGED <<scroll_speed_ms, show_frame, text, scroll_offset,
                   last_known_width, interrupt_text, interrupt_remaining_ms,
                   paused_before_interrupt, saved_scroll_offset, paused, dimmed,
                   sleep_ms, term_size, histVars, otherVars>>

\* the listener task: TcpListener::bind returns Ok (the accept loop starts)
\* or Err (one eprintln!, the task ends): main.rs:33-56
BindListener(ok) ==
    /\ running
    /\ listener = "binding"
    /\ listener' = IF ok THEN "accepting" ELSE "ended"
    /\ bind_diagnostics' = IF ok THEN bind_diagnostics ELSE bind_diagnostics + 1
    /\ UNCHANGED <<appVars, sleep_ms, term_size, histVars, otherVars>>

\* handle_events finds nothing to do: poll() is false, or the event read is
\* not a key press (lines 325-327)
NoKeyEvent ==
    /\ running
    /\ UNCHANGED vars

Next ==
    \/ Tick
    \/ \E msg \in Messages : RecvMessage(msg)
    \/ \E code \in Keys : KeyPress(code)
    \/ NoKeyEvent
    \/ \E ok \in BOOLEAN : BindListener(ok)

Spec == Init /\ [][Next]_vars

\* the timer of the run loop keeps firing
FairSpec == Spec /\ WF_vars(Tick)

(***************************************************************************)
(* The renderer on its own: App::ui applied to an App whose fields and      *)
(* whose inner area are drawn from bounded sets.                           *)
(***************************************************************************)
RenderInit ==
    /\ running = TRUE
    /\ configured_ms \in ConfiguredSpeeds
    /\ scroll_speed_ms = configured_ms
    /\ show_frame \in BOOLEAN
    /\ text \in RenderTexts
    /\ scroll_offset \in 0..MaxRenderOffset
    /\ last_known_width = 0
    /\ interrupt_text \in {None} \cup {Some(msg) : msg \in Messages}
    /\ interrupt_remaining_ms \in IF HasOverlay THEN RenderCountdowns ELSE {0}
    /\ paused_before_interrupt = FALSE
    /\ saved_scroll_offset = 0
    /\ paused = FALSE
    /\ dimmed = FALSE
    /\ sleep_ms = scroll_speed_ms
    /\ term_size = None
    /\ only_ticks = FALSE
    /\ before_msg_paused = FALSE
    /\ before_msg_offset = 0
    /\ ticks_since_msg = 0
    /\ paused_tick_parity = FALSE
    /\ area_width \in 0..MaxAreaWidth
    /\ displayed_string = << >>
    /\ alignment = "NotDrawn"
    /\ NoFunnel
    /\ NoChannel
    /\ ListenerUp
    /\ NoWs
    /\ loop_pc = "draw"
    /\ events_handled = 0

\* terminal.draw(|f| self.ui(f)): the ticker line of one frame
Draw ==
    /\ running
    /\ displayed_string' = TickerPrefix \o TickerBody(ContentText, scroll_offset,
                                                      ContentAvailableWidth)
    /\ alignment' = TickerAlignment(HasOverlay, StrWidth(ContentText),
                                    area_width, show_frame)
    /\ UNCHANGED <<appVars, sleep_ms, term_size, histVars, area_width, funnelVars,
                   chanVars, listenerVars, loopVars, wsVars>>

RenderNext == Draw

RenderSpec == RenderInit /\ [][RenderNext]_vars

(***************************************************************************)
(* The event funnel (src/event.rs): the clock task spawned by               *)
(* EventHandler::new, the adapters that hold a clone of the sender, and    *)
(* the consumer calling next().  Time is explicit here.                    *)
(***************************************************************************)
\* an App that the funnel's specification does not touch
AppAtRest ==
    /\ running = TRUE
    /\ configured_ms = 3000
    /\ scroll_speed_ms = configured_ms
    /\ show_frame = TRUE
    /\ text = TextAB
    /\ scroll_offset = 0
    /\ last_known_width = 0
    /\ interrupt_text = None
    /\ interrupt_remaining_ms = 0
    /\ paused_before_interrupt = FALSE
    /\ saved_scroll_offset = 0
    /\ paused = FALSE
    /\ dimmed = FALSE
    /\ sleep_ms = scroll_speed_ms
    /\ term_size = None
    /\ only_ticks = FALSE
    /\ before_msg_paused = FALSE
    /\ before_msg_offset = 0
    /\ ticks_since_msg = 0
    /\ paused_tick_parity = FALSE
    /\ loop_pc = "draw"
    /\ events_handled = 0

\* EventHandler::new(tick_rate): both channels empty; tokio's interval
\* completes its first tick at once; last_tick = Instant::now()
FunnelInit ==
    /\ AppAtRest
    /\ NotDrawn
    /\ NoChannel
    /\ ListenerUp
    /\ NoWs
    /\ now = 0
    /\ interval_period \in TickRates
    /\ interval_deadline = 0
    /\ last_tick = 0
    /\ tick_speed_rx = << >>
    /\ rx = << >>
    /\ sent_count = [p \in Producers |-> 0]
    /\ recv_count = [p \in Producers |-> 0]
    /\ rate_changed = FALSE

Max(a, b) == IF a > b THEN a ELSE b

\* (mutation) a sent event overtakes the events already waiting
ChannelSend_Front(queue, e) == <<e>> \o queue

\* UnboundedSender::send: the event joins the end of the channel
ChannelSend(queue, e) == Append(queue, e)

\* producer p sends event e through its sender
SendEvent(p, e) ==
    /\ sent_count[p] < MaxSends
    /\ sent_count' = [sent_count EXCEPT ![p] = @ + 1]
    /\ rx' = ChannelSend(rx, [event |-> e, src |-> p, n |-> sent_count[p] + 1])

\* (mutation) the new interval starts its period at the time of the change
RateStart_FromNow(new_duration) == now + new_duration

\* `start_time`: lines 51-53
RateStart(new_duration) ==
    LET next_target == last_tick + new_duration
    IN  IF next_target > now THEN next_target ELSE now

\* time passes
PassTime ==
    /\ now < MaxTime
    /\ now' = now + 1
    /\ UNCHANGED <<nonFunnelVars, interval_deadline, interval_period, last_tick, tick_speed_rx,
                   rx, sent_count, recv_count, rate_changed>>

\* select! branch `Some(new_rate) = tick_speed_rx.recv()`: lines 48-59
ClockRate ==
    /\ tick_speed_rx # << >>
    /\ LET new_duration == Head(tick_speed_rx)
       IN  /\ interval_deadline' = RateStart(new_duration)
           /\ interval_period' = new_duration
    /\ tick_speed_rx' = Tail(tick_speed_rx)
    /\ rate_changed' = TRUE
    /\ UNCHANGED <<nonFunnelVars, now, last_tick, rx, sent_count, recv_count>>

\* select! branch `_ = tick_delay`: lines 60-65.  The interval's next
\* deadline is one period after the one that completed.
ClockTick ==
    /\ now >= interval_deadline
    /\ last_tick' = now
    /\ interval_deadline' = interval_deadline + interval_period
    /\ SendEvent("clock", EventTick)
    /\ rate_changed' = FALSE
    /\ UNCHANGED <<nonFunnelVars, now, interval_period, tick_speed_rx, recv_count>>

\* select! branch `Some(Ok(evt)) = crossterm_event`: lines 66-83
ClockTerminal(e) ==
    /\ SendEvent("clock", e)
    /\ UNCHANGED <<nonFunnelVars, now, interval_deadline, interval_period, last_tick,
                   tick_speed_rx, recv_count, rate_changed>>

\* an adapter sends a Message through its clone of the sender (sender():
\* lines 95-98)
AdapterSend(p) ==
    /\ SendEvent(p, EventMessage)
    /\ UNCHANGED <<nonFunnelVars, now, interval_deadline, interval_period, last_tick,
                   tick_speed_rx, recv_count, rate_changed>>

\* set_tick_rate: lines 90-93
SetTickRate(tick_rate) ==
    /\ Len(tick_speed_rx) < MaxPendingRates
    /\ tick_speed_rx' = Append(tick_speed_rx, tick_rate)
    /\ UNCHANGED <<nonFunnelVars, now, interval_deadline, interval_period, last_tick, rx,
                   sent_count, recv_count, rate_changed>>

\* next(): lines 100-103
EventNext ==
    /\ rx # << >>
    /\ rx' = Tail(rx)
    /\ recv_count' = [recv_count EXCEPT ![Head(rx).src] = @ + 1]
    /\ UNCHANGED <<nonFunnelVars, now, interval_deadline, interval_period, last_tick,
                   tick_speed_rx, sent_count, rate_changed>>

FunnelNext ==
    \/ PassTime
    \/ ClockRate
    \/ ClockTick
    \/ \E e \in TerminalEvents : ClockTerminal(e)
    \/ \E p \in Adapters : AdapterSend(p)
    \/ \E tick_rate \in TickRates : SetTickRate(tick_rate)
    \/ EventNext

FunnelSpec == FunnelInit /\ [][FunnelNext]_vars

(***************************************************************************)
(* The message channel between the TCP connection tasks and the run loop   *)
(* (src/main.rs:28-51, src/app.rs:113-120).  One connection task is        *)
(* followed by name ("conn"); the others are anonymous ("other").  A       *)
(* suspended send is woken in arrival order, as tokio's semaphore does.    *)
(***************************************************************************)
ConnTasks == {"conn", "other"}

ChanInit ==
    /\ AppAtRest
    /\ NotDrawn
    /\ NoFunnel
    /\ ListenerUp
    /\ NoWs
    /\ channel = << >>
    /\ send_waiters = << >>
    /\ conn_pc = "reading"
    /\ others_left = MaxOthers
    /\ conn_read \in ConnReads
    /\ delivered = FALSE

\* str::trim
RECURSIVE TrimStart(_)
TrimStart(str) == IF str # << >> /\ Head(str) \in WhiteSpace
                  THEN TrimStart(Tail(str)) ELSE str
RECURSIVE TrimEnd(_)
TrimEnd(str) == IF str # << >> /\ str[Len(str)] \in WhiteSpace
                THEN TrimEnd(SubSeq(str, 1, Len(str) - 1)) ELSE str
Trim(str) == TrimEnd(TrimStart(str))

\* (mutation) the emptiness test is made on the bytes read, not on the
\* trimmed text
ConnForwards_Untrimmed(read) ==
    /\ read # None
    /\ Len(read[1]) > 0

\* the read succeeded, gave n > 0 bytes and the trimmed text is not empty:
\* main.rs:41-46
ConnForwards(read) ==
    /\ read # None
    /\ Len(read[1]) > 0
    /\ Trim(read[1]) # << >>

\* the message a connection task sends; the other tasks have read "ALERT X"
ConnMessage(p) == IF p = "conn" THEN Trim(conn_read[1]) ELSE MsgAlertX

\* the followed task's position after its send has gone as `outcome` says
ConnAfter(p, outcome) == IF p = "conn" THEN outcome ELSE conn_pc

\* (mutation) a send that finds the channel full gives the message up and
\* returns
SendWhenFull_Drop(p) ==
    /\ conn_pc' = ConnAfter(p, "sent")
    /\ UNCHANGED <<channel, send_waiters>>

\* tx.send(msg).await finds no free slot: the task is suspended
SendWhenFull(p) ==
    /\ send_waiters' = Append(send_waiters, p)
    /\ conn_pc' = ConnAfter(p, "sending")
    /\ UNCHANGED channel

\* a connection task has read a non-empty message and calls
\* tx.send(msg).await: main.rs:40-48
ConnSend(p) ==
    /\ IF p = "conn"
       THEN conn_pc = "reading" /\ ConnForwards(conn_read)
       ELSE others_left > 0
    /\ others_left' = IF p = "conn" THEN others_left ELSE others_left - 1
    /\ IF ~running
       THEN \* the receiver is dropped: Err
            /\ conn_pc' = ConnAfter(p, "failed")
            /\ UNCHANGED <<channel, send_waiters>>
       ELSE IF Len(channel) < ChannelCapacity /\ send_waiters = << >>
       THEN /\ channel' = Append(channel, p)
            /\ conn_pc' = ConnAfter(p, "sent")
            /\ UNCHANGED send_waiters
       ELSE SendWhenFull(p)
    /\ UNCHANGED <<appVars, sleep_ms, term_size, histVars, drawVars, funnelVars, listenerVars, loopVars, wsVars,
                   conn_read, delivered>>

\* the followed task has nothing to forward and ends: main.rs:41-49
ConnCloses ==
    /\ conn_pc = "reading"
    /\ ~ConnForwards(conn_read)
    /\ conn_pc' = "closed"
    /\ UNCHANGED <<appVars, sleep_ms, term_size, histVars, drawVars, funnelVars,
                   listenerVars, loopVars, wsVars, channel, send_waiters, others_left,
                   conn_read, delivered>>

\* a slot is free: the longest-suspended send completes
SendResumes ==
    /\ running
    /\ send_waiters # << >>
    /\ Len(channel) < ChannelCapacity
    /\ channel' = Append(channel, Head(send_waiters))
    /\ send_waiters' = Tail(send_waiters)
    /\ conn_pc' = ConnAfter(Head(send_waiters), "sent")
    /\ UNCHANGED <<appVars, sleep_ms, term_size, histVars, drawVars, funnelVars, listenerVars, loopVars, wsVars,
                   others_left, conn_read, delivered>>

\* the receiver is dropped: a suspended send returns Err
SendFails ==
    /\ ~running
    /\ send_waiters # << >>
    /\ send_waiters' = Tail(send_waiters)
    /\ conn_pc' = ConnAfter(Head(send_waiters), "failed")
    /\ UNCHANGED <<appVars, sleep_ms, term_size, histVars, drawVars, funnelVars, listenerVars, loopVars, wsVars,
                   channel, others_left, conn_read, delivered>>

\* the run loop takes `Some(msg) = rx.recv()`: app.rs:113-120
ChanRecv ==
    /\ running
    /\ channel # << >>
    /\ MessageBranch(ConnMessage(Head(channel)))
    /\ channel' = Tail(channel)
    /\ delivered' = (delivered \/ Head(channel) = "conn")
    /\ UNCHANGED <<term_size, histVars, drawVars, funnelVars, listenerVars, loopVars, wsVars, send_waiters,
                   conn_pc, others_left, conn_read>>

\* 'q' ends the run loop; run returns and drops rx with what it buffers
ChanQuit ==
    /\ running
    /\ HandleKey("q")
    /\ channel' = << >>
    /\ UNCHANGED <<term_size, histVars, drawVars, funnelVars, listenerVars, loopVars, wsVars, send_waiters,
                   conn_pc, others_left, conn_read, delivered>>

ChanNext ==
    \/ \E p \in ConnTasks : ConnSend(p)
    \/ ConnCloses
    \/ SendResumes
    \/ SendFails
    \/ ChanRecv
    \/ ChanQuit
    \/ NoKeyEvent

ChanSpec == ChanInit /\ [][ChanNext]_vars

\* the run loop keeps iterating and its select! does not pass the message
\* branch over for ever; the runtime runs every task that can proceed
ChanFairSpec ==
    /\ ChanSpec
    /\ WF_vars(ChanRecv)
    /\ WF_vars(SendResumes)
    /\ WF_vars(SendFails)

(***************************************************************************)
(* The iterations of App::run one by one (src/app.rs:98-124): each starts  *)
(* with terminal.draw and then waits in select! until one of its three     *)
(* branches completes.                                                     *)
(***************************************************************************)
LoopInit ==
    /\ AppAtRest
    /\ NoFunnel
    /\ NoChannel
    /\ ListenerUp
    /\ NoWs
    /\ area_width = FallbackCols - FrameCols
    /\ displayed_string = << >>
    /\ alignment = "NotDrawn"

\* what a step of the loop leaves alone
loopRest == <<term_size, histVars, funnelVars, chanVars, listenerVars, wsVars,
              area_width>>

\* terminal.draw(|f| self.ui(f)): line 100
LoopDraw ==
    /\ running
    /\ loop_pc = "draw"
    /\ displayed_string' = TickerPrefix \o TickerBody(ContentText, scroll_offset,
                                                      ContentAvailableWidth)
    /\ alignment' = TickerAlignment(HasOverlay, StrWidth(ContentText),
                                    area_width, show_frame)
    /\ loop_pc' = "select"
    /\ UNCHANGED <<appVars, sleep_ms, events_handled, loopRest>>

\* the sleep completes: lines 105-111
LoopTimer ==
    /\ loop_pc = "select"
    /\ TimerBranch(term_size)
    /\ HasOverlay \/ scroll_offset' <= scroll_offset \/ scroll_offset' <= MaxOffset
    /\ loop_pc' = "draw"
    /\ events_handled' = 1
    /\ UNCHANGED <<displayed_string, alignment, loopRest>>

\* rx.recv() gives a message: lines 113-120
LoopMessage(msg) ==
    /\ loop_pc = "select"
    /\ MessageBranch(msg)
    /\ loop_pc' = "draw"
    /\ events_handled' = 1
    /\ UNCHANGED <<displayed_string, alignment, loopRest>>

\* handle_events completes having read a key press: line 122, lines 324-356
LoopKey(code) ==
    /\ loop_pc = "select"
    /\ HandleKey(code)
    /\ Abs(scroll_speed_ms' - configured_ms) <= MaxDrift * SpeedStepMs
    /\ loop_pc' = "draw"
    /\ events_handled' = 1
    /\ UNCHANGED <<displayed_string, alignment, loopRest>>

\* handle_events completes at once with nothing read: poll(0) is false, or
\* the event is not a key press (lines 325-327); the branch of line 122 is
\* taken all the same
LoopNoKey ==
    /\ loop_pc = "select"
    /\ loop_pc' = "draw"
    /\ events_handled' = 0
    /\ UNCHANGED <<appVars, sleep_ms, displayed_string, alignment, loopRest>>

LoopNext ==
    \/ LoopDraw
    \/ LoopTimer
    \/ \E msg \in Messages : LoopMessage(msg)
    \/ \E code \in Keys : LoopKey(code)
    \/ LoopNoKey

LoopSpec == LoopInit /\ [][LoopNext]_vars

(***************************************************************************)
(* The adapters' tasks: the TCP listener (src/main.rs:32-57,               *)
(* src/server.rs:8-16) and the WebSocket client (src/ws_client.rs:21-63),  *)
(* which sends into the funnel.  The retry delay is counted in seconds.    *)
(***************************************************************************)
AdapterInit ==
    /\ AppAtRest
    /\ NotDrawn
    /\ NoFunnel
    /\ NoChannel
    /\ listener = "binding"
    /\ bind_diagnostics = 0
    /\ ws_pc = "connecting"
    /\ ws_url_ok \in BOOLEAN
    /\ ws_diagnostics = 0
    /\ ws_sleep_left = 0

\* what a step of the WebSocket task leaves alone
wsRest == <<appVars, sleep_ms, term_size, histVars, drawVars, chanVars,
            listenerVars, loopVars, ws_url_ok>>
funnelRest == <<now, interval_deadline, interval_period, last_tick, tick_speed_rx,
                recv_count, rate_changed>>

\* connect_and_listen returned Err: the eprintln! of line 24, then the retry
\* delay of line 27 starts
WsFailed ==
    /\ ws_diagnostics < MaxDiagnostics
    /\ ws_diagnostics' = ws_diagnostics + 1
    /\ ws_pc' = "sleeping"
    /\ ws_sleep_left' = RetryDelaySecs

\* connect_and_listen is called: Url::parse fails (line 34), or connect_async
\* fails or succeeds (line 45)
WsConnect(connected) ==
    /\ ws_pc = "connecting"
    /\ IF ws_url_ok /\ connected
       THEN /\ ws_pc' = "listening"
            /\ UNCHANGED <<ws_diagnostics, ws_sleep_left>>
       ELSE WsFailed
    /\ UNCHANGED <<wsRest, funnelVars>>

\* a Text frame with a message to display is forwarded: lines 50-53
WsText ==
    /\ ws_pc = "listening"
    /\ SendEvent("ws", EventMessage)
    /\ UNCHANGED <<wsRest, funnelRest, ws_pc, ws_diagnostics, ws_sleep_left>>

\* the stream ends or a Close frame arrives (Ok, lines 57 and 62), or the
\* stream gives an error (Err, line 49)
WsStreamEnds(clean) ==
    /\ ws_pc = "listening"
    /\ IF clean
       THEN /\ ws_pc' = "sleeping"
            /\ ws_sleep_left' = RetryDelaySecs
            /\ UNCHANGED ws_diagnostics
       ELSE WsFailed
    /\ UNCHANGED <<wsRest, funnelVars>>

\* a second of the retry delay passes; after the last one the loop of line
\* 22 starts over
WsSleep ==
    /\ ws_pc = "sleeping"
    /\ IF ws_sleep_left > 1
       THEN /\ ws_sleep_left' = ws_sleep_left - 1
            /\ UNCHANGED ws_pc
       ELSE /\ ws_sleep_left' = 0
            /\ ws_pc' = "connecting"
    /\ UNCHANGED <<wsRest, funnelVars, ws_diagnostics>>

AdapterNext ==
    \/ \E ok \in BOOLEAN : BindListener(ok)
    \/ \E connected \in BOOLEAN : WsConnect(connected)
    \/ WsText
    \/ \E clean \in BOOLEAN : WsStreamEnds(clean)
    \/ WsSleep

AdapterSpec == AdapterInit /\ [][AdapterNext]_vars

(***************************************************************************)
(* Properties.                                                             *)
(***************************************************************************)
CeilDiv(a, b) == (a + b - 1) \div b

\* the state right after a Message was processed
JustInterrupted ==
    /\ HasOverlay
    /\ only_ticks
    /\ ticks_since_msg = 0
    /\ interrupt_remaining_ms = AlertDurationMs

\* C1: alert round trip.  When the overlay clears (the countdown expires in
\* on_tick, or Enter is pressed) and only Ticks were processed since the
\* Message, paused and scroll_offset are what they were immediately before
\* the Message.
C1_AlertRoundTrip ==
    [][(HasOverlay /\ interrupt_text' = None /\ only_ticks)
        => (paused' = before_msg_paused /\ scroll_offset' = before_msg_offset)]_vars

\* an overlay raised while paused at a non-zero offset has expired
C1_Witness ==
    /\ ~HasOverlay
    /\ only_ticks
    /\ ticks_since_msg > 0
    /\ before_msg_paused /\ paused
    /\ before_msg_offset > 0 /\ scroll_offset = before_msg_offset

\* C2: a second Message, processed while an overlay is present, replaces the
\* text and resets the countdown but leaves paused_before_interrupt and
\* saved_scroll_offset as they are.
C2_SecondMessageKeepsSaved ==
    [][\A msg \in Messages :
          (HasOverlay /\ RecvMessage(msg))
          => /\ interrupt_text' = Some(msg)
             /\ interrupt_remaining_ms' = AlertDurationMs
             /\ UNCHANGED <<paused_before_interrupt, saved_scroll_offset>>]_vars

\* C3: processing a Message in any state leaves the overlay present with
\* that text, paused = false, scroll_offset = 0 and the countdown at 9000 ms.
C3_MessageInterrupts ==
    [][\A msg \in Messages :
          RecvMessage(msg)
          => /\ interrupt_text' = Some(msg)
             /\ paused' = FALSE
             /\ scroll_offset' = 0
             /\ interrupt_remaining_ms' = 9000]_vars

\* a Message was processed while paused at a non-zero offset
C3_Witness ==
    /\ JustInterrupted
    /\ before_msg_paused
    /\ before_msg_offset > 0
    /\ ~paused /\ scroll_offset = 0

\* C4: every Tick that fires while an overlay is present either lowers the
\* countdown by exactly the tick interval or clears the overlay and restores
\* paused and scroll_offset from the saved fields; none leaves the countdown
\* as it was.
C4_TickCountsDown ==
    [][(HasOverlay /\ Tick)
        => \/ /\ interrupt_text' = interrupt_text
              /\ interrupt_remaining_ms' = interrupt_remaining_ms - scroll_speed_ms
              /\ interrupt_remaining_ms' # interrupt_remaining_ms
           \/ /\ interrupt_text' = None
              /\ paused' = paused_before_interrupt
              /\ scroll_offset' = saved_scroll_offset]_vars

\* C5: with Ticks firing forever, an overlay is eventually cleared, whatever
\* keys other than quit are pressed meanwhile, unless a further Message
\* arrives.
C5_OverlayEventuallyClears ==
    (HasOverlay /\ ~JustInterrupted) ~> (~HasOverlay \/ ~running \/ JustInterrupted)

\* C6: with a constant tick interval s > 0 and nothing but Ticks after a
\* Message, the overlay is present after fewer than ceil(9000/s) Ticks and
\* absent from Tick number ceil(9000/s) on; if the Message arrived while
\* paused at offset k, the state from that Tick on is paused at offset k.
C6_ExpiresOnCeilTick ==
    only_ticks =>
        LET n == CeilDiv(9000, scroll_speed_ms)
        IN  /\ HasOverlay <=> ticks_since_msg < n
            /\ (ticks_since_msg >= n /\ before_msg_paused)
                  => (paused /\ scroll_offset = before_msg_offset)

\* the Tick that clears an overlay raised while paused at a non-zero offset
C6_Witness ==
    /\ only_ticks
    /\ ticks_since_msg = CeilDiv(9000, scroll_speed_ms)
    /\ ~HasOverlay
    /\ before_msg_paused /\ before_msg_offset > 0
    /\ paused /\ scroll_offset = before_msg_offset

\* C7: a Tick with no overlay and paused = false adds exactly 1 to
\* scroll_offset when the static text is wider than the available width, and
\* sets scroll_offset to 0 otherwise.
C7_TickScrollsOrResets ==
    [][(Tick /\ ~HasOverlay /\ ~paused)
        => scroll_offset' = IF StrWidth(text) > last_known_width'
                            THEN scroll_offset + 1
                            ELSE 0]_vars

\* the static text has scrolled, tick by tick, up to MaxOffset
C7_Witness ==
    /\ ~HasOverlay /\ ~paused /\ ~only_ticks
    /\ StrWidth(text) > last_known_width
    /\ scroll_offset = MaxOffset
    /\ saved_scroll_offset = 0

\* C8: a Tick that fires while paused changes no display state; only the
\* timer is re-armed.
C8_PausedTickChangesNothing ==
    [][(Tick /\ paused)
        => /\ UNCHANGED <<scroll_offset, paused, interrupt_text,
                          interrupt_remaining_ms, paused_before_interrupt,
                          saved_scroll_offset>>
           /\ sleep_ms' = scroll_speed_ms]_vars

\* Ticks have fired while paused: the overlay expired into the paused state
\* and the count of Ticks went on to its cap
C8_Witness ==
    /\ only_ticks /\ paused /\ ~HasOverlay
    /\ ticks_since_msg = TickCap
    /\ TickCap > CeilDiv(9000, scroll_speed_ms)

\* C9: from a configured tick interval in [10, 2000] ms, the speed keys keep
\* the tick interval in [10, 2000] ms.
C9_IntervalStaysInRange ==
    (configured_ms >= 10 /\ configured_ms <= 2000)
        => (scroll_speed_ms >= 10 /\ scroll_speed_ms <= 2000)

\* C10: the gap that ends with a Tick (sleep_ms, the duration the timer was
\* armed with at the previous Tick) is not shorter than the interval in force
\* when the Tick fires, and not longer than the old interval plus the new one.
C10_GapRespectsNewInterval ==
    [][Tick => /\ sleep_ms >= scroll_speed_ms
               /\ sleep_ms <= sleep_ms + scroll_speed_ms]_vars

\* C14: once 'q' or Escape has been processed running is false for good and
\* no Tick, Message or key press changes anything; and running becomes
\* false only through 'q' or Escape.
C14_QuitIsFinal ==
    [][/\ ~running => UNCHANGED vars
       /\ (running /\ ~running') => (KeyPress("q") \/ KeyPress("Esc"))]_vars

\* the loop was left while an overlay was showing, paused
C14_Witness ==
    /\ ~running
    /\ HasOverlay
    /\ paused

\* C15: Enter pressed while an overlay is present makes the step that the
\* countdown's expiry makes (overlay absent, paused and scroll_offset taken
\* from the saved fields, countdown and saved fields as they were); Enter
\* pressed with no overlay changes nothing of the App.
C15_EnterIsExpiry ==
    [][KeyPress("Enter")
        => IF HasOverlay
           THEN /\ ExpireInterrupt
                /\ interrupt_text' = None
                /\ paused' = paused_before_interrupt
                /\ scroll_offset' = saved_scroll_offset
                /\ UNCHANGED <<paused_before_interrupt, saved_scroll_offset,
                               running, scroll_speed_ms, show_frame, dimmed, text>>
           ELSE UNCHANGED <<appVars, sleep_ms>>]_vars

\* an overlay raised while paused at a non-zero offset was dismissed before
\* its countdown had moved (expiry needs the countdown at or below the
\* tick interval)
C15_Witness ==
    /\ ~HasOverlay
    /\ interrupt_remaining_ms = AlertDurationMs
    /\ paused /\ paused_before_interrupt
    /\ scroll_offset > 0 /\ scroll_offset = saved_scroll_offset

\* C16: space flips only paused, 'f' only show_frame, 'b' only dimmed; none
\* of them changes scroll_offset, the overlay text, the countdown, the saved
\* fields or the tick interval.
C16_TogglesFlipOnlyTheirFlag ==
    [][\A code \in {" ", "f", "b"} :
          KeyPress(code)
          => /\ paused' = IF code = " " THEN ~paused ELSE paused
             /\ show_frame' = IF code = "f" THEN ~show_frame ELSE show_frame
             /\ dimmed' = IF code = "b" THEN ~dimmed ELSE dimmed
             /\ UNCHANGED <<scroll_offset, interrupt_text, interrupt_remaining_ms,
                            paused_before_interrupt, saved_scroll_offset,
                            scroll_speed_ms, sleep_ms, running, text,
                            last_known_width>>]_vars

\* space and 'b' were pressed during an overlay that had scrolled
C16_Witness ==
    /\ HasOverlay
    /\ paused /\ dimmed
    /\ scroll_offset > 0
    /\ interrupt_remaining_ms < 9000

\* a frame has been drawn
Drawn == alignment # "NotDrawn"

\* the part of the drawn line that follows the countdown prefix
DrawnBody == SubSeq(displayed_string, Len(TickerPrefix) + 1, Len(displayed_string))

\* the content does not fit: the scrolling branch is taken
Scrolling == StrWidth(ContentText) > ContentAvailableWidth

SingleColumn(s) == \A i \in 1..Len(s) : CharWidth(s[i]) = 1

\* C17: with no overlay and a static text at most as wide as the available
\* width, the drawn line is exactly the text, whatever scroll_offset is, and
\* it is centred when the frame is shown and left-aligned when it is not.
C17_FittingTextShownWhole ==
    (Drawn /\ ~HasOverlay /\ StrWidth(text) <= area_width)
        => /\ displayed_string = text
           /\ alignment = IF show_frame THEN "Center" ELSE "Left"

\* a framed text with wide and zero-width glyphs that fills the area exactly,
\* drawn at a non-zero offset
C17_Witness ==
    /\ Drawn
    /\ ~HasOverlay
    /\ text = TextWideMix
    /\ StrWidth(text) = area_width
    /\ scroll_offset > 0
    /\ alignment = "Center"

\* C18: in the scrolling branch the window drawn at offset k is the window
\* of offset k + C, C being the width of content + spacer; and for content
\* of single-column glyphs the window of offset k + 1 is the window of
\* offset k without its first glyph, followed by the next glyph of the
\* cyclic strip.
C18_WindowIsPeriodic ==
    (Drawn /\ Scrolling)
        => LET content == ContentText \o Spacer
               C == StrWidth(content)
               W == ContentAvailableWidth
           IN  /\ DrawnBody = TickerBody(ContentText, scroll_offset + C, W)
               /\ SingleColumn(ContentText)
                    => TickerBody(ContentText, scroll_offset + 1, W)
                         = Tail(DrawnBody)
                             \o <<CycleAt(content, scroll_offset + Len(DrawnBody))>>

\* the offset has gone once round the strip of "AB" + spacer and the window
\* is the one of offset 1 again
C18_Witness ==
    /\ Drawn
    /\ ~HasOverlay
    /\ text = TextAB
    /\ area_width = 1
    /\ scroll_offset = 12
    /\ displayed_string = <<"B">>

\* C19: in the scrolling branch the display width of the drawn body equals
\* the available width.
C19_WindowWidthIsExact ==
    (Drawn /\ Scrolling) => StrWidth(DrawnBody) = ContentAvailableWidth

\* C20: when the width available to the body is zero the drawn body is
\* empty.
C20_ZeroWidthWindowIsEmpty ==
    (Drawn /\ ContentAvailableWidth = 0) => DrawnBody = << >>

\* C11: when the clock task takes a rate change, the next Tick is scheduled
\* at max(now, last_tick + new_interval); the first Tick sent after the
\* change is sent no earlier than one new interval after the previous Tick.
C11_RateChangeKeepsPhase ==
    [][/\ ClockRate
           => /\ interval_period' = Head(tick_speed_rx)
              /\ interval_deadline' = Max(now, last_tick + Head(tick_speed_rx))
       /\ (ClockTick /\ rate_changed) => now >= last_tick + interval_period]_vars

\* a rate change was applied late in the period: the target instant had
\* passed and the next Tick is due at once, not one new interval from now
C11_Witness ==
    /\ rate_changed
    /\ last_tick + interval_period < now
    /\ interval_deadline = now
    /\ sent_count["clock"] > 0

\* the producer's numbers of the events of producer p that wait in the funnel
EventNumbers(p) ==
    LET mine == SelectSeq(rx, LAMBDA e : e.src = p)
    IN  [i \in 1..Len(mine) |-> mine[i].n]

\* C12: for every producer, the events waiting in the funnel are, in queue
\* order, exactly the events it has sent and next() has not yet returned:
\* next() returns each producer's events in send order, each once.
C12_PerProducerFifo ==
    \A p \in Producers :
        EventNumbers(p) = [i \in 1..(sent_count[p] - recv_count[p]) |-> recv_count[p] + i]

\* events of two producers wait interleaved while next() has already
\* returned some of each
C12_Witness ==
    /\ Len(rx) = 2
    /\ rx[1].src = "ws" /\ rx[2].src = "clock"
    /\ rx[2].event = EventTick
    /\ recv_count["clock"] > 0
    /\ recv_count["ws"] > 0

\* C13: a message that the followed connection task has published (its send
\* is suspended, or has returned Ok) is eventually received by the run loop,
\* or else the run loop has ended and the send has returned.
C13_SendNeverBlocksForEver ==
    (conn_pc \in {"sending", "sent"} /\ ~delivered)
        ~> (delivered \/ (~running /\ conn_pc # "sending"))

\* more messages are pending than the channel holds: the followed send is
\* suspended behind a full channel and another suspended send, the run loop
\* still running
C13_Witness ==
    /\ running
    /\ conn_pc = "sending"
    /\ Len(channel) = ChannelCapacity
    /\ send_waiters = <<"other", "conn">>
    /\ ~delivered

\* the countdown prefix, written out
PrefixShown == <<"(">> \o Decimal(CeilDiv(interrupt_remaining_ms, 1000))
                   \o <<"s", ")", " ", " ">>

\* the columns taken by the first i glyphs of content
ColumnsBefore(content, i) == StrWidth(SubSeq(content, 1, i))

\* body is the run of the cyclic strip that starts with the glyph covering
\* column `offset` and goes on until W columns are reached
IsWindowOf(body, content, offset, W) ==
    /\ Len(body) >= 1
    /\ \E i \in 0..(Len(content) - 1) :
          /\ ColumnsBefore(content, i) <= offset
          /\ offset < ColumnsBefore(content, i + 1)
          /\ \A j \in 1..Len(body) : body[j] = CycleAt(content, i + j - 1)
    /\ StrWidth(body) >= W
    /\ Len(body) = 1 \/ StrWidth(SubSeq(body, 1, Len(body) - 1)) < W

C26_CountdownInRange ==
    HasOverlay
        => /\ interrupt_remaining_ms > 0
           /\ interrupt_remaining_ms <= 9000
           /\ Seconds(interrupt_remaining_ms) \in 1..9

\* an overlay in its last second, counted down at an interval that a speed
\* key has changed
C26_Witness ==
    /\ HasOverlay
    /\ interrupt_remaining_ms < 1000
    /\ scroll_speed_ms # configured_ms

\* C27: in the scrolling branch the modulus is at least 9, the skip loop
\* stops within the first pass over the content and the fill loop stops:
\* the body holds at most one glyph more than the passes over the content
\* that W columns can take.
C27_ScrollingBranchIsTotal ==
    (Drawn /\ Scrolling)
        => LET content == ContentText \o Spacer
               C == StrWidth(content)
               W == ContentAvailableWidth
           IN  /\ C >= 9
               /\ scroll_offset % C \in 0..(C - 1)
               /\ SkipIndex(content, 0, 0, scroll_offset % C) \in 0..(Len(content) - 1)
               /\ Len(DrawnBody) >= 1
               /\ Len(DrawnBody) <= (W \div C + 1) * Len(content) + 1

\* a text with zero-width and two-column glyphs scrolled to an offset beyond
\* the zero-width glyph, in an area one column narrower than the text
C27_Witness ==
    /\ Drawn
    /\ ~HasOverlay
    /\ text = TextWideMix
    /\ area_width = 5
    /\ scroll_offset = 4
    /\ displayed_string = <<"WIDE", " ", " ", " ">>

\* C23: a failed bind ends the listener task and nothing else: the step
\* leaves the App as it is (running included); from then on no overlay is
\* ever raised, one diagnostic has been written, and every step that
\* changes anything is a Tick or a key press.
C23_BindFailureIsIsolated ==
    /\ [](listener = "ended"
            => /\ ~HasOverlay
               /\ interrupt_remaining_ms = 0
               /\ bind_diagnostics = 1)
    /\ [][/\ (listener = "binding" /\ listener' = "ended")
               => UNCHANGED <<appVars, sleep_ms>>
          /\ listener = "ended"
               => /\ listener' = "ended"
                  /\ Tick \/ \E code \in Keys : KeyPress(code)]_vars

\* after a failed bind the text was scrolled by Ticks, paused with space and
\* the loop left with 'q'
C23_Witness ==
    /\ listener = "ended"
    /\ scroll_offset > 0
    /\ paused
    /\ ~running

\* how many times task p occurs in queue
Occurrences(queue, p) == Cardinality({i \in 1..Len(queue) : queue[i] = p})

\* the read failed, gave no bytes, or gave white space only
NothingToForward ==
    \/ conn_read = None
    \/ \A i \in 1..Len(conn_read[1]) : conn_read[1][i] \in WhiteSpace

\* C25: the followed connection has at most one message in the channel,
\* waiting to enter it, or received; when its read failed or gave only
\* white space it has none and its task ends without sending; and the text
\* of an overlay is never empty and has no white space at either end.
C25_OneTrimmedMessagePerConnection ==
    /\ Occurrences(channel, "conn") + Occurrences(send_waiters, "conn")
         + (IF delivered THEN 1 ELSE 0) <= 1
    /\ NothingToForward
         => /\ Occurrences(channel, "conn") = 0
            /\ Occurrences(send_waiters, "conn") = 0
            /\ ~delivered
            /\ conn_pc \in {"reading", "closed"}
    /\ HasOverlay
         => /\ interrupt_text[1] # << >>
            /\ Head(interrupt_text[1]) \notin WhiteSpace
            /\ interrupt_text[1][Len(interrupt_text[1])] \notin WhiteSpace

\* the followed connection read " OK" and a line feed, and the overlay shows
\* "OK"
C25_Witness ==
    /\ conn_read = Some(ReadOk)
    /\ delivered
    /\ interrupt_text = Some(<<"O", "K">>)

\* C22: every redraw after the first follows the handling of exactly one
\* event: when the loop is about to draw again, the select! it has just left
\* handled one Tick, Message or key press.
C22_OneEventPerRedraw ==
    (running /\ loop_pc = "draw" /\ alignment # "NotDrawn") => events_handled = 1

\* C24: an adapter that meets a condition no retry can cure writes its
\* diagnostic once and its task ends: after a failed bind the listener has
\* written one line; with a URL that cannot be parsed the WebSocket task has
\* written at most one line and does not go back to connecting.
C24_NoRetryOnFatalCondition ==
    /\ listener = "ended" => bind_diagnostics = 1
    /\ ~ws_url_ok => /\ ws_diagnostics <= 1
                     /\ ws_diagnostics = 1 => ws_pc \notin {"connecting", "listening"}

====
